---- MODULE Spec2Model ----
(***************************************************************************)
(* torseed: streaming v1/v2 piece hashing (hash_v1.rs, hash_v2.rs) and the *)
(* bencoded metainfo assembler (metainfo.rs).                              *)
(*                                                                         *)
(* Byte strings of the content stream are kept as sequences of segments    *)
(* [lo, hi) of stream offsets: the byte at offset k of the stream is the   *)
(* k-th byte, whatever its value.  Two byte strings are equal iff they are *)
(* the same offsets in the same order, so adjacent segments are merged on  *)
(* concatenation.  SHA-1 / SHA-256 are injective constructors over the     *)
(* bytes they absorbed.                                                    *)
(***************************************************************************)
EXTENDS Integers, Sequences, FiniteSets, TLC

VARIABLES
    piece_length,   \* the piece length given to V1Hasher::new and V2Hasher::finalize
    n_chunks,       \* number of chunks fed so far
    stream_pos,     \* offset of the next byte of the stream
    v1,             \* the V1Hasher
    v2,             \* the V2Hasher
    phase,          \* "streaming", "failed" (a V2 update failed), "done"
    pieces,         \* result of V1Hasher::finalize
    leaves,         \* the leaves V2Hasher::finalize read back
    v2_summary,     \* result of V2Hasher::finalize: a V2Summary or None
    io,             \* the backing-store fault offered to the last V2Hasher operation
    content_length, \* main: primary_meta.content_length
    output_path,    \* main: the file name of the torrent path, or None before it is computed
    torrent_file,   \* main: the bytes of the file at the torrent path, or None if there is no file
    magnet_file,    \* main: the bytes of the file at the magnet path, or None if there is no file
    magnets,        \* main: the result of build_magnets, or None
    m_nodes,        \* merkle_root: the argument
    m_level,        \* merkle_root: the local `level`
    m_pc,           \* merkle_root: "call", "loop" or "done"
    m_iter,         \* merkle_root: completed iterations of the while loop
    m_result,       \* merkle_root: the value returned
    b_input,        \* metainfo::build: the BuildInput
    b_out,          \* metainfo::build: the Result<Metainfo>
    b_prev          \* the BuildInput and result of the previous build

hashVars == <<piece_length, n_chunks, stream_pos, v1, v2, phase, pieces, leaves, v2_summary, io>>
mainVars == <<content_length, output_path, torrent_file, magnet_file, magnets>>
merkleVars == <<m_nodes, m_level, m_pc, m_iter, m_result>>
buildVars == <<b_input, b_out, b_prev>>
vars == <<hashVars, merkleVars, buildVars, mainVars>>

None == [none |-> TRUE]

\* ---------------------------------------------------------------- bounds
MaxChunks == 3
MaxLeaves == 5
MaxMainChunks == 2

\* ------------------------------------------------------------- constants
LEAF_SIZE == 16384
SHA1_LEN == 20
SHA256_LEN == 32

PieceLengths == {4096, 5000, 16384, 24576, 32768}
ChunkSizes == {0, 1, 4096, 5000, 16383, 16384, 16385, 32768}

\* ------------------------------------------------------------ arithmetic
Min(a, b) == IF a <= b THEN a ELSE b

CeilDiv(a, b) == (a + b - 1) \div b

\* ---------------------------------------------------------- byte strings
Slice(lo, hi) == IF lo >= hi THEN << >> ELSE << [lo |-> lo, hi |-> hi] >>

RECURSIVE BLen(_)
BLen(b) == IF b = << >> THEN 0 ELSE (Head(b).hi - Head(b).lo) + BLen(Tail(b))

BCat(a, b) ==
    IF a = << >> THEN b
    ELSE IF b = << >> THEN a
    ELSE IF a[Len(a)].hi = b[1].lo
         THEN SubSeq(a, 1, Len(a) - 1)
              \o << [lo |-> a[Len(a)].lo, hi |-> b[1].hi] >>
              \o Tail(b)
         ELSE a \o b

\* ---------------------------------------------------------------- hashes
Sha1Digest(data) == [alg |-> "sha1", data |-> data]

Sha256Digest(data) == [alg |-> "sha256", data |-> data]

\* ----------------------------------------------------- hash_v1::V1Hasher
V1New(pl) == [piece_length |-> pl, current_len |-> 0, hasher |-> << >>, pieces |-> << >>]

flush_piece_KeepsState(h) ==
    [h EXCEPT !.pieces = Append(@, Sha1Digest(h.hasher)), !.current_len = 0]

flush_piece(h) ==
    [h EXCEPT !.pieces = Append(@, Sha1Digest(h.hasher)),
              !.hasher = << >>,
              !.current_len = 0]

RECURSIVE V1UpdateLoop(_, _, _)
V1UpdateLoop(h, lo, hi) ==
    IF lo = hi THEN h
    ELSE LET remaining == h.piece_length - h.current_len
             to_take == Min(remaining, hi - lo)
             h1 == [h EXCEPT !.hasher = BCat(@, Slice(lo, lo + to_take)),
                             !.current_len = @ + to_take]
             h2 == IF h1.current_len = h1.piece_length THEN flush_piece(h1) ELSE h1
         IN  V1UpdateLoop(h2, lo + to_take, hi)

V1Update(h, lo, hi) == V1UpdateLoop(h, lo, hi)

V1Finalize_AlwaysFlush(h) == flush_piece(h).pieces

V1Finalize(h) == IF h.current_len > 0 THEN flush_piece(h).pieces ELSE h.pieces

\* length in bytes of a Vec<u8> holding SHA-1 digests
PiecesLen(p) == SHA1_LEN * Len(p)

\* ------------------------------------------- hash_v2: the Merkle builder
hash_pair(left, right) == Sha256Digest(<< left, right >>)

MerklePad_NoDup(level) == level

\* if level.len() % 2 == 1 { level.push(*level.last()) }
MerklePad(level) ==
    IF Len(level) % 2 = 1 THEN Append(level, level[Len(level)]) ELSE level

\* for chunk in level.chunks_exact(2) { next.push(hash_pair(&chunk[0], &chunk[1])) }
MerklePairs(level) ==
    [i \in 1..(Len(level) \div 2) |-> hash_pair(level[2 * i - 1], level[2 * i])]

\* one iteration of `while level.len() > 1`
MerkleStep(level) == MerklePairs(MerklePad(level))

RECURSIVE MerkleLoop(_)
MerkleLoop(level) == IF Len(level) > 1 THEN MerkleLoop(MerkleStep(level)) ELSE level[1]

merkle_root(nodes) ==
    IF nodes = << >> THEN Sha256Digest(<< >>) ELSE MerkleLoop(nodes)

RECURSIVE PieceLayersLoop(_, _, _, _, _)
PieceLayersLoop(lvs, leaves_per_piece, todo, index, layers) ==
    IF todo = 0 \/ index >= Len(lvs) THEN layers
    ELSE LET end == Min(index + leaves_per_piece, Len(lvs))
             root == merkle_root(SubSeq(lvs, index + 1, end))
         IN  PieceLayersLoop(lvs, leaves_per_piece, todo - 1, end, Append(layers, root))

build_piece_layers_FloorLpp(lvs, pl, piece_count) ==
    IF lvs = << >> \/ pl = 0 \/ piece_count = 0 THEN << >>
    ELSE PieceLayersLoop(lvs, pl \div LEAF_SIZE, piece_count, 0, << >>)

build_piece_layers(lvs, pl, piece_count) ==
    IF lvs = << >> \/ pl = 0 \/ piece_count = 0 THEN << >>
    ELSE PieceLayersLoop(lvs, CeilDiv(pl, LEAF_SIZE), piece_count, 0, << >>)

\* length in bytes of a Vec<u8> holding SHA-256 digests
LayersLen(l) == SHA256_LEN * Len(l)

\* ----------------------------------------------------- hash_v2::V2Hasher
\* store: the digests written to the temporary file through leaf_writer
V2New == [buffer |-> << >>, store |-> << >>, leaf_count |-> 0, total_bytes |-> 0]

write_leaf_NoCount(h, digest, ok) ==
    IF ok THEN [h |-> [h EXCEPT !.store = Append(@, digest)], err |-> FALSE]
    ELSE [h |-> h, err |-> TRUE]

\* ok = FALSE: leaf_writer.write_all returns an error
write_leaf(h, digest, ok) ==
    IF ok THEN [h |-> [h EXCEPT !.store = Append(@, digest), !.leaf_count = @ + 1],
                err |-> FALSE]
    ELSE [h |-> h, err |-> TRUE]

\* n bytes that are not bytes of the stream
Padding(n) == IF n = 0 THEN << >> ELSE << [lo |-> 0 - n, hi |-> 0] >>

flush_leaf_Padded(h, ok) ==
    LET r == write_leaf(h, Sha256Digest(BCat(h.buffer, Padding(LEAF_SIZE - BLen(h.buffer)))), ok)
    IN  IF r.err THEN r ELSE [h |-> [r.h EXCEPT !.buffer = << >>], err |-> FALSE]

flush_leaf(h, ok) ==
    LET r == write_leaf(h, Sha256Digest(h.buffer), ok)
    IN  IF r.err THEN r ELSE [h |-> [r.h EXCEPT !.buffer = << >>], err |-> FALSE]

\* budget: how many store writes succeed before one fails (negative: all succeed)
RECURSIVE V2UpdateLoop(_, _, _, _)
V2UpdateLoop(h, lo, hi, budget) ==
    IF lo = hi THEN [h |-> h, err |-> FALSE]
    ELSE LET needed == LEAF_SIZE - BLen(h.buffer)
             take == Min(needed, hi - lo)
             h1 == [h EXCEPT !.buffer = BCat(@, Slice(lo, lo + take))]
         IN  IF BLen(h1.buffer) = LEAF_SIZE
             THEN LET r == flush_leaf(h1, budget /= 0)
                  IN  IF r.err THEN r
                      ELSE V2UpdateLoop(r.h, lo + take, hi,
                                        IF budget > 0 THEN budget - 1 ELSE budget)
             ELSE V2UpdateLoop(h1, lo + take, hi, budget)

V2Update(h, lo, hi, budget) ==
    V2UpdateLoop([h EXCEPT !.total_bytes = @ + (hi - lo)], lo, hi, budget)

read_leaves_IgnoreError(store, leaf_count, ok) ==
    [leaves |-> SubSeq(store, 1, Min(leaf_count, Len(store))), err |-> FALSE]

\* read_exact of leaf_count digests from the start of the file
read_leaves(store, leaf_count, ok) ==
    IF ok /\ Len(store) >= leaf_count
    THEN [leaves |-> SubSeq(store, 1, leaf_count), err |-> FALSE]
    ELSE [leaves |-> << >>, err |-> TRUE]

PieceCount(total_bytes, pl) ==
    IF total_bytes = 0 THEN 0 ELSE (total_bytes + pl - 1) \div pl

V2Failed(h) == [h |-> h, err |-> TRUE, leaves |-> << >>, summary |-> None]

\* fault: the backing-store operation that fails, if it is performed
\* if !self.buffer.is_empty() { self.flush_leaf()?; }
FlushPartial(h, ok) ==
    IF h.buffer /= << >> THEN flush_leaf(h, ok) ELSE [h |-> h, err |-> FALSE]

EnsureLeaf_Skip(h, ok) == [h |-> h, err |-> FALSE]

\* if self.leaf_count == 0 { write the digest of the empty string }
EnsureLeaf(h, ok) ==
    IF h.leaf_count = 0 THEN write_leaf(h, Sha256Digest(<< >>), ok)
    ELSE [h |-> h, err |-> FALSE]

V2Finalize(h, pl, fault) ==
    LET r1 == FlushPartial(h, fault /= "write")
        r2 == EnsureLeaf(r1.h, fault /= "write")
        rd == read_leaves(r2.h.store, r2.h.leaf_count, fault /= "read")
        piece_count == PieceCount(r2.h.total_bytes, pl)
        piece_layers == IF piece_count = 0 THEN << >>
                        ELSE build_piece_layers(rd.leaves, pl, piece_count)
    IN  IF r1.err THEN V2Failed(r1.h)
        ELSE IF r2.err THEN V2Failed(r2.h)
        ELSE IF fault \in {"flush", "seek"} THEN V2Failed(r2.h)
        ELSE IF rd.err THEN V2Failed(r2.h)
        ELSE [h |-> r2.h, err |-> FALSE, leaves |-> rd.leaves,
              summary |-> [pieces_root |-> merkle_root(rd.leaves),
                           piece_layers |-> piece_layers]]

IoBudgets == {-1, 0, 1}
FinalizeFaults == {"none", "write", "flush", "seek", "read"}

\* ================================================= metainfo.rs: values
\* Bytes are numbers 0..255.  A u64 is four 16-bit limbs, most significant
\* first; an i64 is a sign and a magnitude of four limbs.
LIMB == 2 ^ 16

U64FromNat(n) == << 0, 0, n \div LIMB, n % LIMB >>

U64Zero == << 0, 0, 0, 0 >>

I64FromNat(n) == [neg |-> FALSE, mag |-> U64FromNat(n)]

\* str::as_bytes, for the strings of the model
AsBytes(s) ==
    CASE
         s = "announce" -> << 97, 110, 110, 111, 117, 110, 99, 101 >>
      [] s = "announce-list" -> << 97, 110, 110, 111, 117, 110, 99, 101, 45, 108, 105, 115, 116 >>
      [] s = "created by" -> << 99, 114, 101, 97, 116, 101, 100, 32, 98, 121 >>
      [] s = "creation date" -> << 99, 114, 101, 97, 116, 105, 111, 110, 32, 100, 97, 116, 101 >>
      [] s = "info" -> << 105, 110, 102, 111 >>
      [] s = "url-list" -> << 117, 114, 108, 45, 108, 105, 115, 116 >>
      [] s = "length" -> << 108, 101, 110, 103, 116, 104 >>
      [] s = "name" -> << 110, 97, 109, 101 >>
      [] s = "piece length" -> << 112, 105, 101, 99, 101, 32, 108, 101, 110, 103, 116, 104 >>
      [] s = "pieces" -> << 112, 105, 101, 99, 101, 115 >>
      [] s = "meta version" -> << 109, 101, 116, 97, 32, 118, 101, 114, 115, 105, 111, 110 >>
      [] s = "file tree" -> << 102, 105, 108, 101, 32, 116, 114, 101, 101 >>
      [] s = "piece layers" -> << 112, 105, 101, 99, 101, 32, 108, 97, 121, 101, 114, 115 >>
      [] s = "pieces root" -> << 112, 105, 101, 99, 101, 115, 32, 114, 111, 111, 116 >>
      [] s = "a" -> << 97 >>
      [] s = "b.bin" -> << 98, 46, 98, 105, 110 >>
      [] s = "udp://t1" -> << 117, 100, 112, 58, 47, 47, 116, 49 >>
      [] s = "http://t2" -> << 104, 116, 116, 112, 58, 47, 47, 116, 50 >>
      [] s = "http://w1" -> << 104, 116, 116, 112, 58, 47, 47, 119, 49 >>
      [] s = "http://w2" -> << 104, 116, 116, 112, 58, 47, 47, 119, 50 >>
      [] s = "torseed 0.1.0" -> << 116, 111, 114, 115, 101, 101, 100, 32, 48, 46, 49, 46, 48 >>
      [] s = "x" -> << 120 >>
      [] s = "magnet:?xt=urn:btih:" -> << 109, 97, 103, 110, 101, 116, 58, 63, 120, 116, 61, 117, 114, 110, 58, 98, 116, 105, 104, 58 >>
      [] s = "magnet:?xt=urn:btmh:1220" -> << 109, 97, 103, 110, 101, 116, 58, 63, 120, 116, 61, 117, 114, 110, 58, 98, 116, 109, 104, 58, 49, 50, 50, 48 >>
      [] s = "&dn=" -> << 38, 100, 110, 61 >>
      [] s = "&tr=" -> << 38, 116, 114, 61 >>
      [] s = "&ws=" -> << 38, 119, 115, 61 >>

RECURSIVE BytesLess(_, _)
\* Ord for [u8]: lexicographic, a proper prefix is smaller
BytesLess(a, b) ==
    IF b = << >> THEN FALSE
    ELSE IF a = << >> THEN TRUE
    ELSE IF Head(a) /= Head(b) THEN Head(a) < Head(b)
    ELSE BytesLess(Tail(a), Tail(b))

Integer(i) == [t |-> "int", v |-> i]

bytes(data) == [t |-> "bytes", v |-> data]

List(items) == [t |-> "list", v |-> items]

\* Value::Dict over a BTreeMap: the entries, in ascending key order
Dict(entries) == [t |-> "dict", v |-> entries]

key(s) == AsBytes(s)

EmptyMap == << >>

\* an insertion-ordered map
MapInsert_Append(d, k, v) == Append(d, [k |-> k, v |-> v])

\* BTreeMap::insert: replaces the value of an equal key, keeps key order
MapInsert(d, k, v) ==
    SelectSeq(d, LAMBDA e : BytesLess(e.k, k))
    \o << [k |-> k, v |-> v] >>
    \o SelectSeq(d, LAMBDA e : BytesLess(k, e.k))

RECURSIVE MapExtend(_, _)
\* BTreeMap::extend: insert every entry of `other`
MapExtend(d, other) ==
    IF other = << >> THEN d
    ELSE MapExtend(MapInsert(d, Head(other).k, Head(other).v), Tail(other))

MapKeys(d) == {d[i].k : i \in 1..Len(d)}

MapHas(d, k) == \E i \in 1..Len(d) : d[i].k = k

MapGet(d, k) == d[CHOOSE i \in 1..Len(d) : d[i].k = k].v

\* ------------------------------------------------------------- bencode
DivMod10(u) ==
    LET c1 == u[1]
        c2 == (c1 % 10) * LIMB + u[2]
        c3 == (c2 % 10) * LIMB + u[3]
        c4 == (c3 % 10) * LIMB + u[4]
    IN  [q |-> << c1 \div 10, c2 \div 10, c3 \div 10, c4 \div 10 >>, r |-> c4 % 10]

RECURSIVE DecDigits(_)
DecDigits(u) ==
    IF u = U64Zero THEN << >>
    ELSE DecDigits(DivMod10(u).q) \o << 48 + DivMod10(u).r >>

\* the decimal digits of a magnitude, in ASCII
Decimal(u) == IF u = U64Zero THEN << 48 >> ELSE DecDigits(u)

RECURSIVE Flatten(_)
Flatten(ss) == IF ss = << >> THEN << >> ELSE Head(ss) \o Flatten(Tail(ss))

EncodeInt(i) ==
    << 105 >> \o (IF i.neg THEN << 45 >> ELSE << >>) \o Decimal(i.mag) \o << 101 >>

EncodeBytes(b) == Decimal(U64FromNat(Len(b))) \o << 58 >> \o b

RECURSIVE to_bencode(_)
\* i<decimal>e, <length>:<bytes>, l<items>e, d<key><value>...e
to_bencode(val) ==
    CASE val.t = "int" -> EncodeInt(val.v)
      [] val.t = "bytes" -> EncodeBytes(val.v)
      [] val.t = "list" ->
            << 108 >> \o Flatten([i \in 1..Len(val.v) |-> to_bencode(val.v[i])]) \o << 101 >>
      [] val.t = "dict" ->
            << 100 >>
            \o Flatten([i \in 1..Len(val.v) |->
                            EncodeBytes(val.v[i].k) \o to_bencode(val.v[i].v)])
            \o << 101 >>

\* ================================================ metainfo.rs: build
Some(x) == [some |-> x]

Ok(x) == [ok |-> TRUE, v |-> x]

Err(msg) == [ok |-> FALSE, err |-> msg]

\* `value as i64`: no check, the top bit becomes the sign
i64_from_u64_Cast(value) == Ok([neg |-> value[1] >= 2 ^ 15, mag |-> value])

\* i64::try_from(u64): fails from 2^63 on
i64_from_u64(value) ==
    IF value[1] < 2 ^ 15 THEN Ok([neg |-> FALSE, mag |-> value])
    ELSE Err("value exceeds i64 range")

info_v1_map_WithDate(input) ==
    LET len == i64_from_u64(input.length)
    IN  IF ~len.ok THEN len
        ELSE Ok(MapInsert(MapInsert(MapInsert(MapInsert(MapInsert(EmptyMap,
                key("length"), Integer(len.v)),
                key("name"), bytes(AsBytes(input.name))),
                key("piece length"), Integer(I64FromNat(input.piece_length))),
                key("pieces"), bytes(input.pieces)),
                key("creation date"), Integer(input.creation_date)))

info_v1_map(input) ==
    LET len == i64_from_u64(input.length)
    IN  IF ~len.ok THEN len
        ELSE Ok(MapInsert(MapInsert(MapInsert(MapInsert(EmptyMap,
                key("length"), Integer(len.v)),
                key("name"), bytes(AsBytes(input.name))),
                key("piece length"), Integer(I64FromNat(input.piece_length))),
                key("pieces"), bytes(input.pieces)))

build_file_tree(input, v2s) ==
    LET len == i64_from_u64(input.length)
        leaf == MapInsert(MapInsert(EmptyMap,
                    key("length"), Integer(len.v)),
                    key("pieces root"), bytes(v2s.pieces_root))
        file_entry == MapInsert(EmptyMap, << >>, Dict(leaf))
        tree == MapInsert(EmptyMap, AsBytes(input.name), Dict(file_entry))
    IN  IF ~len.ok THEN len ELSE Ok(Dict(tree))

\* metainfo.rs build_piece_layers: { pieces_root -> piece_layers }
layers_dict(v2s) == Dict(MapInsert(EmptyMap, v2s.pieces_root, bytes(v2s.piece_layers)))

info_v2_map(input, v2s) ==
    LET tree == build_file_tree(input, v2s)
    IN  IF ~tree.ok THEN tree
        ELSE Ok(MapInsert(MapInsert(MapInsert(MapInsert(MapInsert(EmptyMap,
                key("meta version"), Integer(I64FromNat(2))),
                key("name"), bytes(AsBytes(input.name))),
                key("piece length"), Integer(I64FromNat(input.piece_length))),
                key("file tree"), tree.v),
                key("piece layers"), layers_dict(v2s)))

build_info_full_V1Only(input) ==
    LET m1 == info_v1_map(input)
    IN  IF ~m1.ok THEN m1 ELSE Ok(Dict(m1.v))

build_info_full(input) ==
    LET m1 == info_v1_map(input)
        m2 == info_v2_map(input, input.v2.some)
    IN  IF ~m1.ok THEN m1
        ELSE IF input.v2 = None THEN Ok(Dict(m1.v))
        ELSE IF ~m2.ok THEN m2
        ELSE Ok(Dict(MapExtend(m1.v, m2.v)))

build_info_v1_Merged(input) == build_info_full(input)

build_info_v1(input) ==
    LET m1 == info_v1_map(input)
    IN  IF ~m1.ok THEN m1 ELSE Ok(Dict(m1.v))

build_info_v2(input) ==
    LET m2 == info_v2_map(input, input.v2.some)
    IN  IF input.v2 = None THEN Ok(Dict(EmptyMap))
        ELSE IF ~m2.ok THEN m2
        ELSE Ok(Dict(m2.v))

TorrentRoot_TierPerTracker(input, info) ==
    LET tiers == [i \in 1..Len(input.trackers) |->
                     List(<< bytes(AsBytes(input.trackers[i])) >>)]
        webseed_list == [i \in 1..Len(input.webseeds) |-> bytes(AsBytes(input.webseeds[i]))]
    IN  Dict(MapInsert(MapInsert(MapInsert(MapInsert(MapInsert(MapInsert(EmptyMap,
            key("announce"), bytes(AsBytes(input.trackers[1]))),
            key("announce-list"), List(tiers)),
            key("created by"), bytes(AsBytes(input.created_by))),
            key("creation date"), Integer(input.creation_date)),
            key("info"), info),
            key("url-list"), List(webseed_list)))

TorrentRoot(input, info) ==
    LET announce_tier == [i \in 1..Len(input.trackers) |-> bytes(AsBytes(input.trackers[i]))]
        webseed_list == [i \in 1..Len(input.webseeds) |-> bytes(AsBytes(input.webseeds[i]))]
    IN  Dict(MapInsert(MapInsert(MapInsert(MapInsert(MapInsert(MapInsert(EmptyMap,
            key("announce"), bytes(AsBytes(input.trackers[1]))),
            key("announce-list"), List(<< List(announce_tier) >>)),
            key("created by"), bytes(AsBytes(input.created_by))),
            key("creation date"), Integer(input.creation_date)),
            key("info"), info),
            key("url-list"), List(webseed_list)))

build_torrent_root(input, info) == to_bencode(TorrentRoot(input, info))

build_TrackersLast(input) ==
    LET info_full == build_info_full(input)
        info_v1 == build_info_v1(input)
        info_v2 == build_info_v2(input)
        infohash_v1 == Some(Sha1Digest(to_bencode(info_v1.v)))
        infohash_v2 == IF input.v2 /= None THEN Some(Sha256Digest(to_bencode(info_v2.v)))
                       ELSE None
    IN  IF ~info_full.ok THEN info_full
        ELSE IF ~info_v1.ok THEN info_v1
        ELSE IF ~info_v2.ok THEN info_v2
        ELSE IF input.trackers = << >> THEN Err("At least one tracker is required")
        ELSE [ok |-> TRUE,
              torrent |-> build_torrent_root(input, info_full.v),
              infohash_v1 |-> infohash_v1,
              infohash_v2 |-> infohash_v2]

build(input) ==
    LET info_full == build_info_full(input)
        info_v1 == build_info_v1(input)
        info_v2 == build_info_v2(input)
        infohash_v1 == Some(Sha1Digest(to_bencode(info_v1.v)))
        infohash_v2 == IF input.v2 /= None THEN Some(Sha256Digest(to_bencode(info_v2.v)))
                       ELSE None
    IN  IF input.trackers = << >> THEN Err("At least one tracker is required")
        ELSE IF ~info_full.ok THEN info_full
        ELSE IF ~info_v1.ok THEN info_v1
        ELSE IF ~info_v2.ok THEN info_v2
        ELSE [ok |-> TRUE,
              torrent |-> build_torrent_root(input, info_full.v),
              infohash_v1 |-> infohash_v1,
              infohash_v2 |-> infohash_v2]

\* ------------------------------------------------- the inputs of build
Fill(n, b) == [i \in 1..n |-> b]

BuildNames == {"a", "b.bin"}
BuildLengths == {U64FromNat(0), U64FromNat(40000),
                 << 2 ^ 15 - 1, 2 ^ 16 - 1, 2 ^ 16 - 1, 2 ^ 16 - 1 >>,
                 << 2 ^ 15, 0, 0, 0 >>}
BuildPieceLengths == {16384, 32768}
BuildPieces == {<< >>, Fill(20, 17) \o Fill(20, 200)}
BuildTrackers == {<< >>, << "udp://t1" >>, << "http://t2", "udp://t1" >>}
BuildWebseeds == {<< >>, << "http://w1", "http://w2" >>}
BuildDates == {I64FromNat(0), I64FromNat(1700000000)}
BuildCreators == {"torseed 0.1.0", "x"}
BuildV2 == {None,
            Some([pieces_root |-> Fill(32, 7), piece_layers |-> << >>]),
            Some([pieces_root |-> Fill(32, 1), piece_layers |-> Fill(32, 1) \o Fill(32, 2)])}

BuildInputs ==
    [name : BuildNames, length : BuildLengths, piece_length : BuildPieceLengths,
     pieces : BuildPieces, trackers : BuildTrackers, webseeds : BuildWebseeds,
     creation_date : BuildDates, created_by : BuildCreators, v2 : BuildV2]

\* =================================================== the hashing pass
\* op: the V2Hasher operation, budget / fault: the fault offered to it,
\* from: the stream offset at which the operation started
NoFault == [op |-> "none", budget |-> -1, fault |-> "none", from |-> 0]

HashStart(pl) ==
    /\ piece_length = pl
    /\ n_chunks = 0
    /\ stream_pos = 0
    /\ v1 = V1New(pl)
    /\ v2 = V2New
    /\ phase = "streaming"
    /\ pieces = << >>
    /\ leaves = << >>
    /\ v2_summary = None
    /\ io = NoFault

MerkleIdle ==
    /\ m_nodes = << >>
    /\ m_level = << >>
    /\ m_pc = "idle"
    /\ m_iter = 0
    /\ m_result = None

BuildIdle ==
    /\ b_input = None
    /\ b_out = None
    /\ b_prev = None

HashIdle ==
    /\ piece_length = LEAF_SIZE
    /\ n_chunks = 0
    /\ stream_pos = 0
    /\ v1 = V1New(LEAF_SIZE)
    /\ v2 = V2New
    /\ phase = "idle"
    /\ pieces = << >>
    /\ leaves = << >>
    /\ v2_summary = None
    /\ io = NoFault

MainIdle ==
    /\ content_length = 0
    /\ output_path = None
    /\ torrent_file = None
    /\ magnet_file = None
    /\ magnets = None

Init ==
    /\ \E pl \in PieceLengths : HashStart(pl)
    /\ MerkleIdle
    /\ BuildIdle
    /\ MainIdle

\* the body of the streaming loop: the next n bytes go to both hashers
StreamChunk(n, budget) ==
    /\ phase = "streaming"
    /\ n_chunks < MaxChunks
    /\ LET r == V2Update(v2, stream_pos, stream_pos + n, budget)
       IN  /\ v1' = V1Update(v1, stream_pos, stream_pos + n)
           /\ v2' = r.h
           /\ phase' = IF r.err THEN "failed" ELSE "streaming"
    /\ stream_pos' = stream_pos + n
    /\ n_chunks' = n_chunks + 1
    /\ io' = [op |-> "update", budget |-> budget, fault |-> "none", from |-> stream_pos]
    /\ UNCHANGED <<piece_length, pieces, leaves, v2_summary>>
    /\ UNCHANGED <<merkleVars, buildVars, mainVars>>

\* end of stream: both hashers are consumed by their finalize
FinalizeHashers(fault) ==
    /\ phase = "streaming"
    /\ LET r == V2Finalize(v2, piece_length, fault)
       IN  /\ v2' = r.h
           /\ leaves' = r.leaves
           /\ v2_summary' = r.summary
    /\ pieces' = V1Finalize(v1)
    /\ phase' = "done"
    /\ io' = [op |-> "finalize", budget |-> -1, fault |-> fault, from |-> stream_pos]
    /\ UNCHANGED <<piece_length, n_chunks, stream_pos, v1>>
    /\ UNCHANGED <<merkleVars, buildVars, mainVars>>

Next ==
    \/ \E n \in ChunkSizes, budget \in IoBudgets : StreamChunk(n, budget)
    \/ \E fault \in FinalizeFaults : FinalizeHashers(fault)

Spec == Init /\ [][Next]_vars

\* ============================================ metainfo::build, applied
BuildInit ==
    /\ HashIdle
    /\ MerkleIdle
    /\ MainIdle
    /\ b_input \in BuildInputs
    /\ b_out = None
    /\ b_prev = None

\* let metainfo = build(&input)
CallBuild ==
    /\ b_out = None
    /\ b_out' = build(b_input)
    /\ UNCHANGED <<b_input, b_prev>>
    /\ UNCHANGED <<hashVars, merkleVars, mainVars>>

\* a second build of the same input with another creation_date / created_by
Rebuild(date, by) ==
    /\ b_out /= None
    /\ b_prev = None
    /\ b_prev' = [input |-> b_input, out |-> b_out]
    /\ b_input' = [b_input EXCEPT !.creation_date = date, !.created_by = by]
    /\ b_out' = build(b_input')
    /\ UNCHANGED <<hashVars, merkleVars, mainVars>>

BuildNext ==
    \/ CallBuild
    \/ \E date \in BuildDates, by \in BuildCreators : Rebuild(date, by)

SpecBuild == BuildInit /\ [][BuildNext]_vars

\* ---------------------------------------------------------------------
\* Reference values of the hashing pass, by stream offsets alone.
L == stream_pos

ExpectedCount(len, pl) == IF len = 0 THEN 0 ELSE CeilDiv(len, pl)

RefPieces(len, pl) ==
    [i \in 1..ExpectedCount(len, pl) |-> Sha1Digest(Slice((i - 1) * pl, Min(i * pl, len)))]

RefLeaves(len) ==
    [i \in 1..ExpectedCount(len, LEAF_SIZE) |->
        Sha256Digest(Slice((i - 1) * LEAF_SIZE, Min(i * LEAF_SIZE, len)))]

V2Ok == phase = "done" /\ v2_summary /= None

\* C1: V1Hasher::finalize returns 20 * ceil(L / piece_length) bytes for a
\* stream of L > 0 bytes fed in any chunks, and nothing for L = 0; no extra
\* digest is appended when L is an exact multiple of piece_length.
C1_PieceCount ==
    phase = "done" =>
        /\ PiecesLen(pieces) % 20 = 0
        /\ PiecesLen(pieces) = 20 * ExpectedCount(L, piece_length)
        /\ (L = 0 => pieces = << >>)
        /\ (L > 0 /\ L % piece_length = 0 => Len(pieces) = L \div piece_length)

C1_Witness ==
    /\ phase = "done"
    /\ n_chunks >= 2
    /\ L > piece_length
    /\ L % piece_length = 0
    /\ Len(pieces) >= 2

\* C2: the v1 digests depend only on the byte stream and piece_length: the
\* i-th digest is the SHA-1 of bytes [i*pl, min((i+1)*pl, L)) however the
\* stream was split into chunks, and while streaming the running state has
\* absorbed exactly the bytes after the last piece boundary.
C2_PiecesByOffset ==
    /\ phase = "streaming" =>
          /\ v1.pieces = RefPieces(L - (L % piece_length), piece_length)
          /\ v1.hasher = Slice(L - (L % piece_length), L)
          /\ v1.current_len = L % piece_length
    /\ phase = "done" => pieces = RefPieces(L, piece_length)

C2_Witness ==
    /\ phase = "done"
    /\ piece_length = 5000
    /\ n_chunks = 3
    /\ L = 3 * 4096
    /\ Len(pieces) = 3
    /\ pieces[2] = Sha1Digest(Slice(5000, 10000))

\* C3: piece_layers holds 32 * ceil(L / piece_length) bytes for every L > 0
\* and every piece_length > 0, and is empty for L = 0.
C3_LayersCount ==
    V2Ok => LayersLen(v2_summary.piece_layers) = 32 * ExpectedCount(L, piece_length)

\* C5: for a stream of L > 0 bytes fed in any chunks, the leaves finalize
\* reads back are the SHA-256 digests of the consecutive 16384-byte spans
\* [i*16384, min((i+1)*16384, L)), the last one at its actual length, in
\* the order in which they were written.
C5_LeavesByOffset ==
    V2Ok /\ L > 0 =>
        /\ leaves = RefLeaves(L)
        /\ leaves = v2.store
        /\ BLen(leaves[Len(leaves)].data) = L - (Len(leaves) - 1) * LEAF_SIZE

C5_Witness ==
    /\ V2Ok
    /\ n_chunks >= 2
    /\ Len(leaves) >= 3
    /\ L % LEAF_SIZE /= 0
    /\ leaves[Len(leaves)] = Sha256Digest(Slice(2 * LEAF_SIZE, L))

\* C6: after every successful update the buffer holds fewer than 16384
\* bytes and leaf_count * 16384 + buffer length = total_bytes = bytes fed;
\* a stream of exactly N * 16384 bytes has leaf_count = N and an empty
\* buffer, and finalize then adds no partial leaf.
C6_LeafAccounting ==
    /\ phase = "streaming" =>
          /\ BLen(v2.buffer) < LEAF_SIZE
          /\ v2.total_bytes = L
          /\ v2.leaf_count * LEAF_SIZE + BLen(v2.buffer) = v2.total_bytes
          /\ Len(v2.store) = v2.leaf_count
          /\ (L % LEAF_SIZE = 0 => v2.leaf_count = L \div LEAF_SIZE /\ v2.buffer = << >>)
    /\ V2Ok /\ L > 0 /\ L % LEAF_SIZE = 0 =>
          v2.leaf_count = L \div LEAF_SIZE /\ Len(leaves) = L \div LEAF_SIZE

C6_Witness ==
    /\ phase = "streaming"
    /\ n_chunks = 2
    /\ L = 2 * LEAF_SIZE
    /\ v2.leaf_count = 2
    /\ v2.buffer = << >>

\* C7: finalize after zero bytes writes and reads back exactly one leaf,
\* the SHA-256 of the empty string; piece_count is 0, piece_layers is
\* empty and pieces_root is that leaf unchanged, for every piece_length.
C7_EmptyStream ==
    V2Ok /\ L = 0 =>
        /\ v2.store = << Sha256Digest(<< >>) >>
        /\ v2.leaf_count = 1
        /\ leaves = << Sha256Digest(<< >>) >>
        /\ PieceCount(v2.total_bytes, piece_length) = 0
        /\ v2_summary.piece_layers = << >>
        /\ v2_summary.pieces_root = leaves[1]

C7_Witness ==
    /\ V2Ok
    /\ L = 0
    /\ n_chunks >= 1
    /\ v2_summary.pieces_root = Sha256Digest(<< >>)

\* ============================================ merkle_root, step by step
MerkleLeafSet == {Sha256Digest(Slice(k * LEAF_SIZE, (k + 1) * LEAF_SIZE)) : k \in 0..2}

MerkleInit ==
    /\ HashIdle
    /\ BuildIdle
    /\ MainIdle
    /\ m_nodes \in UNION {[1..n -> MerkleLeafSet] : n \in 0..MaxLeaves}
    /\ m_level = << >>
    /\ m_pc = "call"
    /\ m_iter = 0
    /\ m_result = None

\* if nodes.is_empty() { return digest of "" }
MerkleEmpty ==
    /\ m_pc = "call"
    /\ m_nodes = << >>
    /\ m_result' = Sha256Digest(<< >>)
    /\ m_pc' = "done"
    /\ UNCHANGED <<m_nodes, m_level, m_iter>>
    /\ UNCHANGED <<hashVars, buildVars, mainVars>>

\* let mut level = nodes.to_vec()
MerkleEnter ==
    /\ m_pc = "call"
    /\ m_nodes /= << >>
    /\ m_level' = m_nodes
    /\ m_pc' = "loop"
    /\ UNCHANGED <<m_nodes, m_iter, m_result>>
    /\ UNCHANGED <<hashVars, buildVars, mainVars>>

\* one pass of the body of `while level.len() > 1`
MerkleIterate ==
    /\ m_pc = "loop"
    /\ Len(m_level) > 1
    /\ m_level' = MerkleStep(m_level)
    /\ m_iter' = m_iter + 1
    /\ UNCHANGED <<m_nodes, m_pc, m_result>>
    /\ UNCHANGED <<hashVars, buildVars, mainVars>>

\* level[0]
MerkleReturn ==
    /\ m_pc = "loop"
    /\ Len(m_level) <= 1
    /\ m_result' = m_level[1]
    /\ m_pc' = "done"
    /\ UNCHANGED <<m_nodes, m_level, m_iter>>
    /\ UNCHANGED <<hashVars, buildVars, mainVars>>

MerkleNext ==
    \/ MerkleEmpty
    \/ MerkleEnter
    \/ MerkleIterate
    \/ MerkleReturn

SpecMerkle == MerkleInit /\ [][MerkleNext]_vars

\* The reference tree, top down: level 0 is the leaves, level k has
\* ceil(n / 2^k) nodes, and node i of level k hashes nodes 2i and 2i+1 of
\* level k-1, the left one twice when 2i+1 does not exist.
LevelCount(n, k) == CeilDiv(n, 2 ^ k)

RECURSIVE RefNode(_, _, _)
RefNode(nodes, k, i) ==
    IF k = 0 THEN nodes[i + 1]
    ELSE LET right == IF 2 * i + 1 < LevelCount(Len(nodes), k - 1) THEN 2 * i + 1 ELSE 2 * i
         IN  Sha256Digest(<< RefNode(nodes, k - 1, 2 * i), RefNode(nodes, k - 1, right) >>)

RefLevel(nodes, k) == [i \in 1..LevelCount(Len(nodes), k) |-> RefNode(nodes, k, i - 1)]

Depth(n) == CHOOSE k \in 0..n : LevelCount(n, k) = 1 /\ \A j \in 0..(k - 1) : LevelCount(n, j) > 1

RefRoot(nodes) ==
    IF nodes = << >> THEN Sha256Digest(<< >>) ELSE RefNode(nodes, Depth(Len(nodes)), 0)

\* C4: merkle_root agrees with the reference tree: the empty sequence gives
\* SHA-256 of the empty string, one node is returned unchanged, and after k
\* passes of the loop the level is level k of the reference tree (odd
\* levels with their last node duplicated), so the loop ends after
\* Depth(n) passes with the reference root.
C4_MerkleRoot ==
    /\ m_pc = "loop" =>
          /\ m_iter <= Depth(Len(m_nodes))
          /\ m_level = RefLevel(m_nodes, m_iter)
    /\ m_pc = "done" =>
          /\ m_result = RefRoot(m_nodes)
          /\ m_result = merkle_root(m_nodes)
          /\ (m_nodes = << >> => m_result = Sha256Digest(<< >>))
          /\ (Len(m_nodes) = 1 => m_result = m_nodes[1] /\ m_iter = 0)
          /\ (m_nodes /= << >> => m_iter = Depth(Len(m_nodes)))
    /\ m_pc \in {"call", "loop"} => ENABLED MerkleNext

C4_Witness ==
    /\ m_pc = "done"
    /\ Len(m_nodes) = 5
    /\ m_iter = 3
    /\ m_result = hash_pair(hash_pair(hash_pair(m_nodes[1], m_nodes[2]),
                                      hash_pair(m_nodes[3], m_nodes[4])),
                            hash_pair(hash_pair(m_nodes[5], m_nodes[5]),
                                      hash_pair(m_nodes[5], m_nodes[5])))

\* ---------------------------------------------------------------------
\* A bencode reader, to look into the bytes that build returns and hashes.
\* Dictionary entries are kept in the order in which they are encoded.
IsDigit(c) == c >= 48 /\ c <= 57

RECURSIVE ReadNat(_, _, _)
ReadNat(b, p, acc) ==
    IF p <= Len(b) /\ IsDigit(b[p]) THEN ReadNat(b, p + 1, acc * 10 + (b[p] - 48))
    ELSE [n |-> acc, next |-> p]

MulAdd10(u, d) ==
    LET c4 == u[4] * 10 + d
        c3 == u[3] * 10 + c4 \div LIMB
        c2 == u[2] * 10 + c3 \div LIMB
        c1 == u[1] * 10 + c2 \div LIMB
    IN  << c1 % LIMB, c2 % LIMB, c3 % LIMB, c4 % LIMB >>

RECURSIVE ReadMag(_, _, _)
ReadMag(b, p, acc) ==
    IF p <= Len(b) /\ IsDigit(b[p]) THEN ReadMag(b, p + 1, MulAdd10(acc, b[p] - 48))
    ELSE [u |-> acc, next |-> p]

RECURSIVE ReadValue(_, _)
RECURSIVE ReadItems(_, _, _)
RECURSIVE ReadEntries(_, _, _)
ReadValue(b, p) ==
    CASE b[p] = 105 ->
            LET neg == b[p + 1] = 45
                m == ReadMag(b, IF neg THEN p + 2 ELSE p + 1, U64Zero)
            IN  [v |-> Integer([neg |-> neg, mag |-> m.u]), next |-> m.next + 1]
      [] b[p] = 108 -> ReadItems(b, p + 1, << >>)
      [] b[p] = 100 -> ReadEntries(b, p + 1, << >>)
      [] OTHER ->
            LET n == ReadNat(b, p, 0)
            IN  [v |-> bytes(SubSeq(b, n.next + 1, n.next + n.n)), next |-> n.next + 1 + n.n]

ReadItems(b, p, acc) ==
    IF b[p] = 101 THEN [v |-> List(acc), next |-> p + 1]
    ELSE LET r == ReadValue(b, p) IN ReadItems(b, r.next, Append(acc, r.v))

ReadEntries(b, p, acc) ==
    IF b[p] = 101 THEN [v |-> Dict(acc), next |-> p + 1]
    ELSE LET k == ReadValue(b, p)
             r == ReadValue(b, k.next)
         IN  ReadEntries(b, r.next, Append(acc, [k |-> k.v.v, v |-> r.v]))

Decode(b) == ReadValue(b, 1).v

\* the entries of the info dictionary embedded in the root document
EmbeddedInfo == MapGet(Decode(b_out.torrent).v, key("info")).v

\* the entries of the dictionaries whose encodings were hashed
HashedV1 == Decode(b_out.infohash_v1.some.data).v
HashedV2 == Decode(b_out.infohash_v2.some.data).v

V2OnlyKeys == {key("meta version"), key("file tree"), key("piece layers")}
V1InfoKeys == {key("length"), key("name"), key("piece length"), key("pieces")}
V2InfoKeys == {key("meta version"), key("name"), key("piece length"),
               key("file tree"), key("piece layers")}

Built == b_out /= None /\ b_out.ok

\* C8: a successful build has infohash_v1 always, infohash_v2 exactly when
\* BuildInput.v2 is supplied, and the info dictionary embedded in the root
\* document has the keys meta version, file tree and piece layers exactly
\* when BuildInput.v2 is supplied (none of them otherwise).
C8_V2KeysIffSupplied ==
    Built =>
        /\ b_out.infohash_v1 /= None
        /\ (b_out.infohash_v2 /= None) <=> (b_input.v2 /= None)
        /\ \A k \in V2OnlyKeys : MapHas(EmbeddedInfo, k) <=> (b_input.v2 /= None)

C8_Witness ==
    /\ Built
    /\ b_input.v2 = None
    /\ b_input.pieces = << >>
    /\ b_out.infohash_v2 = None
    /\ b_out.infohash_v1 /= None
    /\ MapKeys(EmbeddedInfo) = V1InfoKeys

\* C9: two builds that differ only in creation_date / created_by succeed or
\* fail together and return the same infohash_v1 and infohash_v2; the
\* hashed dictionaries hold neither field.
C9_HashesIgnoreDateAndCreator ==
    b_prev /= None =>
        /\ b_out.ok = b_prev.out.ok
        /\ b_out.ok =>
              /\ b_out.infohash_v1 = b_prev.out.infohash_v1
              /\ b_out.infohash_v2 = b_prev.out.infohash_v2
              /\ MapKeys(HashedV1) \cap {key("creation date"), key("created by")} = {}
              /\ b_input.v2 /= None =>
                    MapKeys(HashedV2) \cap {key("creation date"), key("created by")} = {}

C9_Witness ==
    /\ b_prev /= None
    /\ Built
    /\ b_input.v2 /= None
    /\ b_input.creation_date /= b_prev.input.creation_date
    /\ b_input.created_by /= b_prev.input.created_by
    /\ b_out.torrent /= b_prev.out.torrent
    /\ b_out.infohash_v2 = b_prev.out.infohash_v2

\* C10: with v2 supplied, the embedded info dictionary has exactly the
\* keys of v1-info {length, name, piece length, pieces} and of v2-info
\* {meta version, name, piece length, file tree, piece layers}, each once
\* and with the value it has in the hashed dictionary it comes from; the
\* hashed v1-info and v2-info hold only their own keys.
C10_CombinedIsUnion ==
    Built /\ b_input.v2 /= None =>
        /\ MapKeys(HashedV1) = V1InfoKeys
        /\ MapKeys(HashedV2) = V2InfoKeys
        /\ MapKeys(EmbeddedInfo) = V1InfoKeys \cup V2InfoKeys
        /\ Len(EmbeddedInfo) = Cardinality(V1InfoKeys \cup V2InfoKeys)
        /\ \A k \in V1InfoKeys : MapGet(EmbeddedInfo, k) = MapGet(HashedV1, k)
        /\ \A k \in V2InfoKeys : MapGet(EmbeddedInfo, k) = MapGet(HashedV2, k)
        /\ \A k \in V1InfoKeys \cap V2InfoKeys : MapGet(HashedV1, k) = MapGet(HashedV2, k)

C10_Witness ==
    /\ Built
    /\ b_input.v2 /= None
    /\ b_input.pieces /= << >>
    /\ Len(EmbeddedInfo) = 7
    /\ MapGet(EmbeddedInfo, key("name")) = bytes(AsBytes(b_input.name))
    /\ MapGet(EmbeddedInfo, key("pieces")) = bytes(b_input.pieces)
    /\ MapGet(EmbeddedInfo, key("piece layers")) = layers_dict(b_input.v2.some)

\* C11: build with an empty tracker list returns the validation error and
\* no Metainfo, whatever the other fields are; the tracker check comes
\* first, so a length that does not fit i64 is not reported instead.
C11_EmptyTrackersRejected ==
    b_out /= None /\ b_input.trackers = << >> =>
        b_out = Err("At least one tracker is required")

C11_Witness ==
    /\ b_out /= None
    /\ b_input.trackers = << >>
    /\ b_input.length = << 2 ^ 15, 0, 0, 0 >>
    /\ b_input.v2 /= None
    /\ ~b_out.ok
    /\ b_out.err = "At least one tracker is required"

\* u64 order, on limbs
RECURSIVE U64Leq(_, _)
U64Leq(a, b) ==
    IF a = << >> THEN TRUE
    ELSE IF Head(a) /= Head(b) THEN Head(a) < Head(b)
    ELSE U64Leq(Tail(a), Tail(b))

I64Max == << 2 ^ 15 - 1, 2 ^ 16 - 1, 2 ^ 16 - 1, 2 ^ 16 - 1 >>

\* the leaf of the v2 file tree embedded in the root document
EmbeddedFileLeaf ==
    MapGet(MapGet(MapGet(EmbeddedInfo, key("file tree")).v, AsBytes(b_input.name)).v, << >>).v

\* C12: with trackers given, build fails with the range error exactly when
\* length > 2^63 - 1; otherwise the integers written under 'length' (info,
\* hashed v1-info, v2 file-tree leaf) are the input length, and 'piece
\* length' is the input piece length: nothing is truncated or wrapped.
C12_LengthChecked ==
    b_out /= None /\ b_input.trackers /= << >> =>
        /\ ~U64Leq(b_input.length, I64Max) => b_out = Err("value exceeds i64 range")
        /\ U64Leq(b_input.length, I64Max) =>
              /\ b_out.ok
              /\ MapGet(HashedV1, key("length")) = Integer([neg |-> FALSE, mag |-> b_input.length])
              /\ MapGet(EmbeddedInfo, key("length")) = Integer([neg |-> FALSE, mag |-> b_input.length])
              /\ MapGet(EmbeddedInfo, key("piece length")) = Integer(I64FromNat(b_input.piece_length))
              /\ b_input.v2 /= None =>
                    MapGet(EmbeddedFileLeaf, key("length")) =
                        Integer([neg |-> FALSE, mag |-> b_input.length])

C12_Witness ==
    /\ Built
    /\ b_input.length = I64Max
    /\ b_input.v2 /= None
    /\ MapGet(EmbeddedFileLeaf, key("length")) = Integer([neg |-> FALSE, mag |-> I64Max])

RECURSIVE DictsSorted(_)
\* every dictionary in val, at any depth, has strictly ascending keys
DictsSorted(val) ==
    CASE val.t = "dict" ->
            /\ \A i \in 1..(Len(val.v) - 1) : BytesLess(val.v[i].k, val.v[i + 1].k)
            /\ \A i \in 1..Len(val.v) : DictsSorted(val.v[i].v)
      [] val.t = "list" -> \A i \in 1..Len(val.v) : DictsSorted(val.v[i])
      [] OTHER -> TRUE

KeyOrder(entries) == [i \in 1..Len(entries) |-> entries[i].k]

RootKeyOrder == << key("announce"), key("announce-list"), key("created by"),
                   key("creation date"), key("info"), key("url-list") >>

\* C13: every dictionary encoded by build (the root with the combined info,
\* file tree and piece layers inside it, and the hashed v1-info and
\* v2-info) has unique keys in strictly ascending byte order, and the root
\* keys are announce, announce-list, created by, creation date, info,
\* url-list in this order.
C13_KeysAscending ==
    Built =>
        /\ DictsSorted(Decode(b_out.torrent))
        /\ DictsSorted(Decode(b_out.infohash_v1.some.data))
        /\ b_input.v2 /= None => DictsSorted(Decode(b_out.infohash_v2.some.data))
        /\ KeyOrder(Decode(b_out.torrent).v) = RootKeyOrder

C13_Witness ==
    /\ Built
    /\ b_input.v2 /= None
    /\ KeyOrder(EmbeddedInfo) = << key("file tree"), key("length"), key("meta version"),
                                    key("name"), key("piece layers"), key("piece length"),
                                    key("pieces") >>
    /\ KeyOrder(EmbeddedFileLeaf) = << key("length"), key("pieces root") >>

DecodedRoot == Decode(b_out.torrent).v

\* C14: in the root document, announce is the first tracker, announce-list
\* is one tier holding all trackers in caller order, and url-list is the
\* webseeds in caller order (the empty list when there are none).
C14_TrackersAndWebseeds ==
    Built =>
        /\ MapGet(DecodedRoot, key("announce")) = bytes(AsBytes(b_input.trackers[1]))
        /\ Len(MapGet(DecodedRoot, key("announce-list")).v) = 1
        /\ MapGet(DecodedRoot, key("announce-list")).v[1] =
              List([i \in 1..Len(b_input.trackers) |-> bytes(AsBytes(b_input.trackers[i]))])
        /\ MapGet(DecodedRoot, key("url-list")) =
              List([i \in 1..Len(b_input.webseeds) |-> bytes(AsBytes(b_input.webseeds[i]))])

C14_Witness ==
    /\ Built
    /\ b_input.trackers = << "http://t2", "udp://t1" >>
    /\ b_input.webseeds = << >>
    /\ MapGet(DecodedRoot, key("url-list")) = List(<< >>)
    /\ MapGet(DecodedRoot, key("announce")) = bytes(AsBytes("http://t2"))

\* ---------------------------------------------------------------------
\* Faults of the backing store, by what was offered to the operation.
\* leaves completed, hence store writes attempted, by the last update
UpdateWrites == L \div LEAF_SIZE - io.from \div LEAF_SIZE

UpdateHit == io.op = "update" /\ io.budget >= 0 /\ UpdateWrites > io.budget

\* finalize writes a leaf only for a trailing partial leaf or an empty stream
FinalizeHit ==
    /\ io.op = "finalize"
    /\ \/ io.fault \in {"flush", "seek", "read"}
       \/ io.fault = "write" /\ (L % LEAF_SIZE /= 0 \/ L = 0)

\* C15: a failing leaf write makes update fail, and a failing leaf write,
\* flush, seek or read-back makes finalize fail, with no V2Summary; a
\* V2Summary is returned only when no operation failed and is computed
\* from all leaf_count leaf digests read back from the store.
C15_StoreFailures ==
    /\ io.op = "update" => (phase = "failed" <=> UpdateHit)
    /\ phase = "failed" => v2_summary = None /\ leaves = << >>
    /\ phase = "done" => (v2_summary = None <=> FinalizeHit)
    /\ V2Ok =>
          /\ Len(v2.store) = v2.leaf_count
          /\ v2.leaf_count = IF L = 0 THEN 1 ELSE CeilDiv(L, LEAF_SIZE)
          /\ leaves = v2.store
          /\ v2_summary.pieces_root = merkle_root(v2.store)

C15_Witness ==
    /\ phase = "done"
    /\ io.fault = "read"
    /\ L > 2 * LEAF_SIZE
    /\ v2.leaf_count = 3
    /\ v2_summary = None

LeavesPerPiece == CeilDiv(piece_length, LEAF_SIZE)

\* C16: for L > 0 the piece layers are the Merkle roots of the consecutive
\* disjoint leaf groups [i*lpp, min((i+1)*lpp, n)), lpp = ceil(pl/16384),
\* one per non-empty group in piece order and none for an empty group, at
\* most piece_count of them; pieces_root is the Merkle root of all leaves.
C16_LayerGroups ==
    V2Ok /\ L > 0 =>
        LET n == Len(leaves)
            groups == CeilDiv(n, LeavesPerPiece)
            layers == v2_summary.piece_layers
        IN  /\ Len(layers) = groups
            /\ groups <= PieceCount(L, piece_length)
            /\ \A i \in 1..groups :
                  /\ (i - 1) * LeavesPerPiece < n
                  /\ layers[i] = merkle_root(SubSeq(leaves, (i - 1) * LeavesPerPiece + 1,
                                                    Min(i * LeavesPerPiece, n)))
            /\ v2_summary.pieces_root = merkle_root(leaves)

C16_Witness ==
    /\ V2Ok
    /\ piece_length = 24576
    /\ Len(leaves) = 3
    /\ v2_summary.piece_layers = << hash_pair(leaves[1], leaves[2]), leaves[3] >>

IsPowerOfTwo(n) == \E k \in 0..12 : n = 2 ^ k

\* C19: when leaves_per_piece is a power of two, the Merkle root of the
\* piece-layer roots equals pieces_root for every leaf count, and when the
\* whole stream fits in one piece the piece layers are that single root.
C19_LayersComposeToRoot ==
    V2Ok /\ L > 0 /\ IsPowerOfTwo(LeavesPerPiece) =>
        /\ merkle_root(v2_summary.piece_layers) = v2_summary.pieces_root
        /\ L <= piece_length => v2_summary.piece_layers = << v2_summary.pieces_root >>

\* ====================================================== main.rs: a run
\* the bytes of a digest, and of a Vec<u8> built by extend_from_slice
DigestBytes(d, n) == [i \in 1..n |-> [digest |-> d, byte |-> i]]

DigestsToBytes(ds, n) == Flatten([i \in 1..Len(ds) |-> DigestBytes(ds[i], n)])

choose_piece_length(size) ==
    IF U64Leq(size, << 0, 0, 2 ^ 11, 0 >>) THEN 256 * 1024
    ELSE IF U64Leq(size, << 0, 0, 2 ^ 14, 0 >>) THEN 512 * 1024
    ELSE IF U64Leq(size, << 0, 1, 0, 0 >>) THEN 1024 * 1024
    ELSE IF U64Leq(size, << 0, 4, 0, 0 >>) THEN 2 * 1024 * 1024
    ELSE IF U64Leq(size, << 0, 16, 0, 0 >>) THEN 4 * 1024 * 1024
    ELSE 8 * 1024 * 1024

build_magnets_Both(name, trackers, webseeds, infohash_v1, infohash_v2) ==
    << [xt |-> "btih", hash |-> infohash_v1, dn |-> name, tr |-> trackers, ws |-> webseeds],
       [xt |-> "btmh", hash |-> infohash_v2, dn |-> name, tr |-> trackers, ws |-> webseeds] >>

build_magnets(name, trackers, webseeds, infohash_v1, infohash_v2) ==
    LET m1 == IF infohash_v1 /= None
              THEN << [xt |-> "btih", hash |-> infohash_v1.some, dn |-> name,
                       tr |-> trackers, ws |-> webseeds] >>
              ELSE << >>
        m2 == IF infohash_v2 /= None
              THEN << [xt |-> "btmh", hash |-> infohash_v2.some, dn |-> name,
                       tr |-> trackers, ws |-> webseeds] >>
              ELSE << >>
    IN  m1 \o m2

\* the content lengths a HEAD response announces
ContentLengths == {U64FromNat(0), U64FromNat(262144), U64FromNat(278528), << 2 ^ 15, 0, 0, 0 >>}
\* the sizes of the chunks the body stream delivers
MainChunkSizes == {16384, 262144}
\* sanitize_filename(&primary_meta.filename)
MainName == "b.bin"
\* gather_trackers returns a non-empty list
MainTrackers == << "udp://t1", "http://t2" >>
\* the primary URL, then the verified extra URLs
MainWebseeds == << "http://w1", "http://w2" >>
MainCreator == "torseed 0.1.0"

\* let build_input = BuildInput { .. }
MainBuildInput(date) ==
    [name |-> MainName,
     length |-> content_length,
     piece_length |-> piece_length,
     pieces |-> DigestsToBytes(pieces, SHA1_LEN),
     trackers |-> MainTrackers,
     webseeds |-> MainWebseeds,
     creation_date |-> date,
     created_by |-> MainCreator,
     v2 |-> IF v2_summary = None THEN None
            ELSE Some([pieces_root |-> DigestBytes(v2_summary.pieces_root, SHA256_LEN),
                       piece_layers |-> DigestsToBytes(v2_summary.piece_layers, SHA256_LEN)])]

MainInit ==
    /\ content_length \in ContentLengths
    /\ HashStart(choose_piece_length(content_length))
    /\ MerkleIdle
    /\ BuildIdle
    /\ output_path = None
    /\ torrent_file = None
    /\ magnet_file = None
    /\ magnets = None

\* let chunk = chunk?: the body stream returns an error
StreamReadError ==
    /\ phase = "streaming"
    /\ phase' = "aborted"
    /\ UNCHANGED <<piece_length, n_chunks, stream_pos, v1, v2, pieces, leaves, v2_summary, io>>
    /\ UNCHANGED <<merkleVars, buildVars, mainVars>>

\* percent_encode with MAGNET_ENCODE_SET: letters, digits and - _ . ~ stay
Unreserved(b) ==
    \/ b \in 48..57
    \/ b \in 65..90
    \/ b \in 97..122
    \/ b \in {45, 95, 46, 126}

UpperHex(n) == IF n < 10 THEN 48 + n ELSE 55 + n

RECURSIVE encode_component(_)
encode_component(value) ==
    IF value = << >> THEN << >>
    ELSE (IF Unreserved(Head(value)) THEN << Head(value) >>
          ELSE << 37, UpperHex(Head(value) \div 16), UpperHex(Head(value) % 16) >>)
         \o encode_component(Tail(value))

\* hex::encode of an n-byte digest: 2n characters
HexEncode(d, n) == [i \in 1..(2 * n) |-> [digest |-> d, hex |-> i]]

append_common(name, trackers, webseeds) ==
    AsBytes("&dn=") \o encode_component(AsBytes(name))
    \o Flatten([i \in 1..Len(trackers) |->
                   AsBytes("&tr=") \o encode_component(AsBytes(trackers[i]))])
    \o Flatten([i \in 1..Len(webseeds) |->
                   AsBytes("&ws=") \o encode_component(AsBytes(webseeds[i]))])

\* build_btih / build_btmh: the text of one magnet link
MagnetText(m) ==
    (IF m.xt = "btih"
     THEN AsBytes("magnet:?xt=urn:btih:") \o HexEncode(m.hash, SHA1_LEN)
     ELSE AsBytes("magnet:?xt=urn:btmh:1220") \o HexEncode(m.hash, SHA256_LEN))
    \o append_common(m.dn, m.tr, m.ws)

\* magnets.join("\n") followed by '\n'
MagnetFileContents(ms) ==
    IF ms = << >> THEN << 10 >>
    ELSE Flatten([i \in 1..Len(ms) |-> MagnetText(ms[i]) \o << 10 >>])

\* the -o option: absent, or a path whose file name is .magnet
CliOutputs == {None, Some(".magnet")}

\* paths are file names in the output directory
compute_output_path(cli_value) ==
    IF cli_value /= None THEN cli_value.some ELSE "b.bin.torrent"

\* dir.join(".magnet"), dir being the directory of the torrent path
magnet_output_path(path) == ".magnet"

\* std::fs::write(path, bytes) over the file `old` (None: no file yet).
\* limit: the number of bytes the file system accepts for the file
\* (negative: the parent directories or the file cannot be created).
\* The file is created or truncated and written in place, so a write
\* that fails part-way leaves the bytes written so far.
fs_write(old, data, limit) ==
    IF limit < 0 THEN [ok |-> FALSE, file |-> old]
    ELSE IF limit < Len(data) THEN [ok |-> FALSE, file |-> SubSeq(data, 1, limit)]
    ELSE [ok |-> TRUE, file |-> data]

write_torrent(torrent, limit) == fs_write(None, torrent, limit)

\* writes over the torrent when the magnet path is the torrent path
write_magnet_file(old, ms, limit) == fs_write(old, MagnetFileContents(ms), limit)

NoLimit == 2 ^ 30
WriteLimits == {-1, 0, 100, NoLimit}
MagnetWriteLimits == {-1, 100, NoLimit}

\* main from write_torrent on, for a metainfo that was built: the phase
\* reached, the files at the two paths and the local `magnets`
WriteFiles(name, metainfo, path, limit, magnet_limit) ==
    LET same == magnet_output_path(path) = path
        wt == write_torrent(metainfo.torrent, limit)
        ms == build_magnets(name, MainTrackers, MainWebseeds,
                            metainfo.infohash_v1, metainfo.infohash_v2)
        wm == write_magnet_file(IF same THEN wt.file ELSE None, ms, magnet_limit)
    IN  IF ~wt.ok
        THEN [phase |-> "write_failed",
              torrent_file |-> wt.file,
              magnet_file |-> IF same THEN wt.file ELSE None,
              magnets |-> None]
        ELSE [phase |-> IF wm.ok THEN "written" ELSE "magnet_failed",
              torrent_file |-> IF same THEN wm.file ELSE wt.file,
              magnet_file |-> wm.file,
              magnets |-> ms]

\* after both finalize calls: build the metainfo, write the torrent file,
\* build the magnet links and write the magnet file
AssembleAndWrite(date, cli_output, limit, magnet_limit) ==
    /\ phase = "done"
    /\ b_input' = MainBuildInput(date)
    /\ b_out' = build(b_input')
    /\ output_path' = compute_output_path(cli_output)
    /\ IF ~b_out'.ok
       THEN phase' = "build_failed" /\ UNCHANGED <<torrent_file, magnet_file, magnets>>
       ELSE LET w == WriteFiles(b_input'.name, b_out', output_path', limit, magnet_limit)
            IN  /\ phase' = w.phase
                /\ torrent_file' = w.torrent_file
                /\ magnet_file' = w.magnet_file
                /\ magnets' = w.magnets
    /\ UNCHANGED <<piece_length, n_chunks, stream_pos, v1, v2, pieces, leaves, v2_summary, io>>
    /\ UNCHANGED <<content_length, b_prev, merkleVars>>

MainNext ==
    \/ \E n \in MainChunkSizes, budget \in IoBudgets :
          n_chunks < MaxMainChunks /\ StreamChunk(n, budget)
    \/ StreamReadError
    \/ \E fault \in FinalizeFaults : FinalizeHashers(fault)
    \/ \E date \in BuildDates, cli_output \in CliOutputs,
          limit \in WriteLimits, magnet_limit \in MagnetWriteLimits :
          AssembleAndWrite(date, cli_output, limit, magnet_limit)

SpecMain == MainInit /\ [][MainNext]_vars

\* a torrent file exists, complete or cut short by a failed write
OnDisk == torrent_file /= None

\* write_torrent returned Ok
Written == phase \in {"written", "magnet_failed"}

\* the leaves of a complete v2 pass over the L bytes streamed
FullLeaves == IF L = 0 THEN << Sha256Digest(<< >>) >> ELSE RefLeaves(L)

\* f holds the first bytes of data, or all of it
IsPrefix(f, data) == Len(f) <= Len(data) /\ f = SubSeq(data, 1, Len(f))

\* the magnet file was written over the torrent file
Overwritten == Written /\ output_path = ".magnet" /\ torrent_file /= b_out.torrent

\* C17: a torrent file comes to exist only after every update succeeded;
\* when finalize fails the run goes on and what it writes is v1-only
\* (infohash_v1 present, infohash_v2 absent, no v2 key, one btih magnet);
\* when the torrent has v2 fields, finalize succeeded and they are those
\* of the complete pass.  The file at the torrent path holds that torrent,
\* or a prefix of it after a failed write, or, when the magnet path is the
\* torrent path, the magnet text of that torrent.  A failed update ends
\* the run with no file.
C17_V2OnlyFromSuccess ==
    /\ phase \in {"failed", "aborted"} =>
          ~OnDisk /\ magnet_file = None /\ magnets = None /\ b_out = None
    /\ OnDisk =>
          /\ io.op = "finalize"
          /\ Built
          /\ IF Overwritten
             THEN /\ torrent_file = magnet_file
                  /\ IsPrefix(torrent_file, MagnetFileContents(magnets))
             ELSE IsPrefix(torrent_file, b_out.torrent)
          /\ b_out.infohash_v1 /= None
          /\ FinalizeHit =>
                /\ v2_summary = None
                /\ b_out.infohash_v2 = None
                /\ MapKeys(EmbeddedInfo) \cap V2OnlyKeys = {}
          /\ ~FinalizeHit =>
                /\ v2_summary /= None
                /\ b_out.infohash_v2 /= None
                /\ V2OnlyKeys \subseteq MapKeys(EmbeddedInfo)
                /\ MapGet(EmbeddedFileLeaf, key("pieces root")) =
                      bytes(DigestBytes(merkle_root(FullLeaves), SHA256_LEN))
    /\ Written =>
          /\ OnDisk
          /\ output_path /= ".magnet" => torrent_file = b_out.torrent
          /\ magnets[1].xt = "btih" /\ magnets[1].hash = b_out.infohash_v1.some
          /\ FinalizeHit => Len(magnets) = 1
          /\ ~FinalizeHit =>
                /\ Len(magnets) = 2
                /\ magnets[2].xt = "btmh" /\ magnets[2].hash = b_out.infohash_v2.some
          /\ phase = "written" => magnet_file = MagnetFileContents(magnets)
    /\ ~Written => magnets = None

C17_Witness ==
    /\ phase = "written"
    /\ output_path = "b.bin.torrent"
    /\ torrent_file = b_out.torrent
    /\ io.fault = "read"
    /\ L = 262144 + 16384
    /\ Len(magnets) = 1
    /\ b_out.infohash_v2 = None
    /\ MapKeys(EmbeddedInfo) = V1InfoKeys

\* C18: in every run that writes a torrent, 'length' is the number of
\* bytes fed to the hashers, so pieces holds ceil(length / piece_length)
\* digests and piece layers as many roots.
C18_LengthIsStreamed ==
    Written =>
        /\ MapGet(EmbeddedInfo, key("length")) = Integer(I64FromNat(L))
        /\ Len(MapGet(EmbeddedInfo, key("pieces")).v) =
              SHA1_LEN * ExpectedCount(b_input.length[3] * LIMB + b_input.length[4], piece_length)
        /\ v2_summary /= None /\ L > 0 =>
              LayersLen(v2_summary.piece_layers) =
                  SHA256_LEN * ExpectedCount(b_input.length[3] * LIMB + b_input.length[4],
                                             piece_length)

====
